---------------------------- MODULE Spec2Model ----------------------------
(***************************************************************************)
(* The gateway process supervisor of src/src/server.js (class               *)
(* GatewayManager) as a state machine.                                      *)
(*                                                                          *)
(* Node runs the server on one event loop: the code between two awaits of   *)
(* an async function runs without interruption, and a promise's             *)
(* continuations run (as microtasks) before the next timer or I/O event.    *)
(* Each action below is therefore one such uninterrupted stretch: a public  *)
(* call up to its first real suspension, the completion of a pre-flight     *)
(* CLI command, a health poll's answer, the expiry of a timer, or a         *)
(* subprocess event.  Timers are untimed: any pending timer may fire.       *)
(***************************************************************************)
EXTENDS Integers, FiniteSets, Sequences, TLC

\* Bounds of the model.
MaxCalls == 2        \* public calls (start/stop/restart/ensure) issued in a run
MaxAttempts == 2     \* physical start attempts (#doStart invocations) in a run

MaxTokens == 2       \* session tokens issued in a run
MaxTime == 3         \* the last reading of the clock

Calls == 1..MaxCalls
Attempts == 1..MaxAttempts
Tokens == 1..MaxTokens
Times == 0..MaxTime

VARIABLES
    state,          \* GatewayManager.#state
    process,        \* GatewayManager.#process: 0 is null, else the subprocess
    startPromise,   \* GatewayManager.#startPromise: 0 is null, else the attempt
    configured,     \* whether the configuration file exists
    procs,          \* the gateway subprocesses spawned; attempt a spawns procs[a]
    attempts,       \* the #doStart invocations and the stop() each may fire
    calls,          \* the public calls issued and where each pending one stands
    resolved,       \* the calls whose promise settled in the last step, with the result
    timers,         \* pending auto-restart timers (setTimeout of the exit handler)
    sent,           \* the signal the last step passed to proc.kill(), if any
    reqs,           \* the proxied requests waiting for their ensure() call c
    responses,      \* the proxied requests answered in the last step, with the answer
    SETUP_PASSWORD, \* the setup password of the deployment; "" is none
    sessions,       \* the sessions Map: token -> created, -1 is no entry
    now,            \* Date.now(), in ticks
    issued,         \* when login answered with each token, -1 is not yet
    loggedOut,      \* the issued tokens a logout was requested for
    expired,        \* the tokens validateSession rejected as too old
    verdict,        \* the last step's validateSession call and its answer
    cli,            \* the Command Runner invocation that settled in the last step
    proxies,        \* gateway.trustedProxies in the configuration file
    cliFailed,      \* the start attempts with a failed pre-flight invocation
    run,            \* the setup run (POST /get-started/api/run) and its event stream
    write,          \* the config write request handled in the last step
    imp,            \* the import request, and what the files it restores hold
    afterStop       \* a stop() has resolved and no caller has asked for the gateway since

\* The Supervisor and the proxy in front of it.
gatewayVars == <<state, process, startPromise, configured, procs, attempts,
                 calls, resolved, timers, sent, reqs, responses>>

\* The session store of the setup interface.
sessionVars == <<SETUP_PASSWORD, sessions, now, issued, loggedOut, expired,
                 verdict>>

\* The Command Runner, the configuration file's content and the setup
\* endpoints that use them.
adminVars == <<cli, proxies, cliFailed, run, write>>

\* What the Supervisor's own steps never touch.
otherVars == <<sessionVars, adminVars, imp, afterStop>>

vars == <<gatewayVars, otherVars>>

States == {"stopped", "starting", "running", "stopping"}

\* What a call resolved to: {ok:true}, {ok:false, error:"OpenClaw not
\* configured"}, {ok:false, error:"Gateway failed to become healthy"}, the
\* value undefined, the value null, or a rejection.  ("spawn_error" stands
\* for {ok:false, error:<the OS error of a failed spawn>}; no path of
\* start() builds it.)
Results == {"ok", "not_configured", "unhealthy", "undefined", "null",
            "rejected"}

NoProc == [st |-> "none", killed |-> FALSE]
\* Kept while the attempt is in flight: auto, it was launched by the
\* auto-restart timer; stopIssued, a stop() call was made meanwhile.
NoAttempt == [pc |-> "none", stop |-> "none", stopProc |-> 0, auto |-> FALSE,
              stopIssued |-> FALSE]
\* overlapped: another public call was pending at some moment of this one.
NoCall == [op |-> "none", pc |-> "idle", att |-> 0, proc |-> 0, overlapped |-> FALSE]
DoneCall == [NoCall EXCEPT !.pc = "done"]

\* A call's settlement: the slot, the operation, the result, and how it came:
\* from the call's synchronous part ("direct"), at the end of stop()'s waits
\* ("waited"), or at the end of the attempt att that the call launched
\* ("await") or was handed as #startPromise ("joined").
Resolution(c, rec, res, att, role) ==
    [c |-> c, op |-> rec.op, res |-> res, att |-> att, role |-> role,
     overlapped |-> rec.overlapped]

\* A request that reaches the proxy: over HTTP the catch-all middleware, or
\* a WebSocket upgrade, whose path is not looked at.  An HTTP path is one of:
\* "setup", /get-started itself or a path under /get-started/ that no route
\* or static file served; "setupLike", a path that begins with the
\* characters /get-started without being under it (/get-started-x);
\* "public", a path that begins with a PUBLIC_PATHS prefix; "gateway", any
\* other.  session: the request carries a valid session token.
Requests ==
    [via : {"http"}, path : {"setup", "setupLike", "public", "gateway"},
     session : BOOLEAN]
    \cup [via : {"ws"}, path : {"any"}, session : BOOLEAN]

\* How a request ended: res is what its ensure() call settled to ("none" if
\* the handler made none); out is "forwarded" (proxy.web / proxy.ws),
\* "redirect" (to /get-started), "503", "destroyed" (socket.destroy()), or
\* "threw" (the handler ended by an exception: nothing sent, nothing
\* forwarded, the socket left open).
Responses ==
    [req : Requests, res : Results \cup {"none"},
     out : {"forwarded", "redirect", "503", "destroyed", "threw"}]

\* Line 99: SESSION_MAX_AGE, 24 hours; a tick of the clock is 12 hours.
SESSION_MAX_AGE == 2

\* What a request can present as its session token: nothing, a value that
\* no login ever returned, or a token that a login returned.
NoToken == -1
Forged == 0
NoVerdict == [token |-> NoToken, ok |-> FALSE, at |-> -1]

\* How childProcess.spawn(cmd, args) of a Command Runner invocation ends: the
\* child closes with an exit code (null when a signal ended it), an error
\* event reports that it could not be spawned (ENOENT, EACCES, EAGAIN,
\* EMFILE, ENFILE), or spawn itself throws (any other spawn error, such as
\* ENOMEM or E2BIG, and an argument that holds a NUL byte).
null == -1
CliOutcomes ==
    [kind : {"close"}, code : {0, 1, null}]
    \cup [kind : {"error", "throw"}, code : {null}]

\* What an invocation's promise settles to; exitCode is null for a promise
\* that rejected.
CliResults ==
    [settled : {"resolved", "rejected"}, success : BOOLEAN,
     exitCode : {0, 1, 127, null}, errmsg : BOOLEAN]

\* The Command Runner invocations of the model: onboard, the three of the
\* pre-flight, and the config sets of a setup run.
CliCommands ==
    {"onboard", "preGet", "preSetProxies", "preSetAuth", "setAuthMode",
     "setAuthToken", "setBind", "setPort", "setProxies", "setInsecure",
     "setBrowser", "setExtra", "importSetToken"}

NoCli ==
    [cmd |-> "none", how |-> [kind |-> "none", code |-> null],
     res |-> [settled |-> "none", success |-> FALSE, exitCode |-> null,
              errmsg |-> FALSE]]

\* A setup run: where it stands, whether the configuration existed when it
\* began, whether it invoked onboard, the done events it sent, the kind of
\* the last event sent, the outcome sent, and the slot of its restart().
NoRun ==
    [pc |-> "idle", had |-> FALSE, onboard |-> FALSE, done |-> 0,
     last |-> "none", ok |-> "none", call |-> 0]

NoWrite == [outcome |-> "none", restartGateway |-> FALSE]

\* An import: its mode, where it stands, the slot of the stop(), start() or
\* restart() it awaits, and whose gateway token the configuration
\* (gateway.auth.token) and the token file hold: this process's
\* GATEWAY_TOKEN ("ours") or the one of the process the archive was exported
\* from; auth: whose credentials an auth-profiles.json under the agents
\* tree holds, if the file exists.
NoImport ==
    [pc |-> "idle", mode |-> "full", call |-> 0, cfgToken |-> "none",
     tokenFile |-> "none", auth |-> "none"]

TypeOK ==
    /\ afterStop \in BOOLEAN
    /\ imp \in [pc : {"idle", "stopping", "extract", "setToken", "start",
                       "restart", "ended"},
                 mode : {"full", "memory"},
                 call : 0..MaxCalls,
                 cfgToken : {"none", "ours", "archive"},
                 tokenFile : {"none", "ours", "archive"},
                 auth : {"none", "ours", "archive"}]
    /\ cli \in [cmd : CliCommands, how : CliOutcomes, res : CliResults]
                \cup {NoCli}
    /\ proxies \in {"unset", "default", "operator"}
    /\ cliFailed \subseteq Attempts
    /\ run \in [pc : {"idle", "onboard", "setAuthMode", "setAuthToken",
                       "setBind", "setPort", "setProxies", "setInsecure",
                       "setBrowser", "setExtra", "restart", "ended"},
                 had : BOOLEAN, onboard : BOOLEAN, done : 0..2,
                 last : {"none", "progress", "done"},
                 ok : {"none", "true", "false"}, call : 0..MaxCalls]
    /\ write \in [outcome : {"none", "invalid", "written"},
                   restartGateway : BOOLEAN]
    /\ SETUP_PASSWORD \in {"", "secret"}
    /\ sessions \in [Tokens -> {-1} \cup Times]
    /\ now \in Times
    /\ issued \in [Tokens -> {-1} \cup Times]
    /\ loggedOut \subseteq Tokens
    /\ expired \subseteq Tokens
    /\ verdict \in [token : {NoToken, Forged} \cup Tokens, ok : BOOLEAN,
                     at : {-1} \cup Times]
    /\ state \in States
    /\ process \in 0..MaxAttempts
    /\ startPromise \in 0..MaxAttempts
    /\ configured \in BOOLEAN
    /\ procs \in [Attempts -> [st : {"none", "alive", "exited", "spawnfail"},
                               killed : BOOLEAN]]
    /\ attempts \in [Attempts ->
            [pc : {"none", "preGet", "preSetProxies", "preSetAuth", "polling",
                   "ok", "failed"},
             stop : {"none", "grace", "killwait"},
             stopProc : 0..MaxAttempts, auto : BOOLEAN,
             stopIssued : BOOLEAN]]
    /\ calls \in [Calls ->
            [op : {"none", "start", "stop", "restart", "ensure"},
             pc : {"idle", "grace", "killwait", "await", "joined", "done"},
             att : 0..MaxAttempts, proc : 0..MaxAttempts, overlapped : BOOLEAN]]
    /\ resolved \subseteq
            [c : Calls, op : {"start", "stop", "restart", "ensure"}, res : Results,
             att : 0..MaxAttempts, role : {"direct", "waited", "await", "joined"},
             overlapped : BOOLEAN]
    /\ timers \in 0..MaxAttempts
    /\ sent \in {"none", "SIGTERM", "SIGKILL"}
    /\ reqs \subseteq [c : Calls, req : Requests]
    /\ responses \subseteq Responses

\* The session store when the server starts: empty.
InitSessions ==
    /\ sessions = [t \in Tokens |-> -1]
    /\ now = 0
    /\ issued = [t \in Tokens |-> -1]
    /\ loggedOut = {}
    /\ expired = {}
    /\ verdict = NoVerdict

\* The Supervisor after construction, lines 181-183, and no request yet.
InitGateway ==
    /\ state = "stopped"
    /\ process = 0
    /\ startPromise = 0
    /\ configured \in BOOLEAN
    /\ procs = [p \in Attempts |-> NoProc]
    /\ attempts = [a \in Attempts |-> NoAttempt]
    /\ calls = [c \in Calls |-> NoCall]
    /\ resolved = {}
    /\ timers = 0
    /\ sent = "none"
    /\ reqs = {}
    /\ responses = {}
    /\ afterStop = FALSE

\* No Command Runner invocation, setup run or config write yet.
InitAdmin ==
    /\ cli = NoCli
    /\ cliFailed = {}
    /\ run = NoRun
    /\ write = NoWrite
    /\ imp = NoImport

Init ==
    /\ SETUP_PASSWORD = "secret"
    /\ InitSessions
    /\ InitGateway
    /\ InitAdmin
    /\ proxies = "unset"

----------------------------------------------------------------------------
\* Helpers

isConfigured == configured

\* isRunning looking at the handle only.
isRunning_HandleOnly == process # 0

isRunning == state = "running" /\ process # 0

Alive(p) == procs[p].st = "alive"

InFlight(a) == attempts[a].pc \in {"preGet", "preSetProxies", "preSetAuth", "polling"}

InFlightSet == {a \in Attempts : InFlight(a)}

\* The attempt the next #doStart invocation becomes.
NextAttempt == Cardinality({a \in Attempts : attempts[a].pc # "none"}) + 1

\* The next call slot: calls are issued in slot order.
Issuable(c) ==
    /\ calls[c].pc = "idle"
    /\ \A d \in Calls : d < c => calls[d].pc # "idle"

Pending(c) == calls[c].pc \notin {"idle", "done"}

\* The record of a call of op issued now, and the call slots once it is
\* issued: the pending ones are overlapped by it.
NewCall(op) ==
    [NoCall EXCEPT !.op = op, !.overlapped = \E d \in Calls : Pending(d)]

Overlap ==
    [d \in Calls |-> IF Pending(d) THEN [calls[d] EXCEPT !.overlapped = TRUE]
                      ELSE calls[d]]

\* proc.kill(signal): the signal reaches a subprocess that still has a
\* handle, and then proc.killed becomes true.
kill(ps, p) ==
    IF p # 0 /\ ps[p].st = "alive" THEN [ps EXCEPT ![p].killed = TRUE] ELSE ps


----------------------------------------------------------------------------
\* GatewayManager.start, lines 188-204

\* StartOutcome without the configuration check of line 189.
StartOutcome_NoConfigCheck(st) ==
    IF st = "running" THEN "noop"
    ELSE IF st = "starting" THEN "join"
    ELSE "fresh"

\* StartOutcome without the running check of line 190.
StartOutcome_NoRunningCheck(st) ==
    IF ~isConfigured THEN "not_configured"
    ELSE IF st = "starting" THEN "join"
    ELSE "fresh"

\* Which way a start() call goes, read from the configuration oracle and
\* the state st it finds.
StartOutcome(st) ==
    IF ~isConfigured THEN "not_configured"
    ELSE IF st = "running" THEN "noop"
    ELSE IF st = "starting" THEN "join"
    ELSE "fresh"

\* Call slot c (base: its record, with the op set) after the synchronous
\* part of start(): settled at once, handed #startPromise, or awaiting the
\* attempt a it launched.
StartCallRecord(base, k, a) ==
    CASE k = "fresh" -> [base EXCEPT !.pc = "await", !.att = a, !.proc = 0]
      [] k = "join" /\ startPromise # 0 ->
            [base EXCEPT !.pc = "joined", !.att = startPromise, !.proc = 0]
      [] OTHER -> DoneCall

\* What start() returns when it settles in its synchronous part.
StartReturn(c, base, k) ==
    CASE k = "not_configured" -> {Resolution(c, base, "not_configured", 0, "direct")}
      [] k = "noop" -> {Resolution(c, base, "ok", 0, "direct")}
      [] k = "join" /\ startPromise = 0 -> {Resolution(c, base, "null", 0, "direct")}
      [] OTHER -> {}

\* start() called with #state = st, by call slot c (0: by the auto-restart
\* timer, whose result nobody reads).  A fresh start runs #doStart up to its
\* first await, the config get of the pre-flight.
StartEffect(c, base, st) ==
    LET k == StartOutcome(st)
        a == NextAttempt
    IN  /\ k = "fresh" => a <= MaxAttempts
        /\ state' = IF k = "fresh" THEN "starting" ELSE st
        /\ startPromise' = IF k = "fresh" THEN a ELSE startPromise
        /\ attempts' = IF k = "fresh"
                       THEN [attempts EXCEPT ![a].pc = "preGet", ![a].auto = (c = 0)]
                       ELSE attempts
        /\ calls' = IF c = 0 THEN calls
                    ELSE [(IF Pending(c) THEN calls ELSE Overlap) EXCEPT
                            ![c] = StartCallRecord(base, k, a)]
        /\ resolved' = IF c = 0 THEN {} ELSE StartReturn(c, base, k)

start(c) ==
    /\ Issuable(c)
    /\ StartEffect(c, NewCall("start"), state)
    /\ UNCHANGED <<process, configured, procs, timers>>
    /\ sent' = "none"

\* GatewayManager.ensure, lines 308-311; its callers are the two proxy
\* handlers.
ensure(c) ==
    /\ Issuable(c)
    /\ IF isRunning
       THEN /\ calls' = [Overlap EXCEPT ![c] = DoneCall]
            /\ resolved' = {Resolution(c, NewCall("ensure"), "ok", 0, "direct")}
            /\ UNCHANGED <<state, startPromise, attempts>>
       ELSE StartEffect(c, NewCall("ensure"), state)
    /\ UNCHANGED <<process, configured, procs, timers>>
    /\ sent' = "none"

----------------------------------------------------------------------------
\* GatewayManager.stop, lines 280-296, and #cleanup, lines 298-301

\* stopHasWork deciding by the state instead of the handle.
stopHasWork_ByState == state # "stopped"

\* Line 281: stop() returns at once unless a handle exists.
stopHasWork == process # 0

\* A stop() was called while these attempts were in flight.
NoteStop(as) ==
    [a \in Attempts |-> IF InFlight(a) THEN [as[a] EXCEPT !.stopIssued = TRUE]
                        ELSE as[a]]

\* StopSync leaving the state as it finds it.
StopSync_NoStopping(c, op) ==
    /\ stopHasWork
    /\ procs' = kill(procs, process)
    /\ sent' = "SIGTERM"
    /\ calls' = [Overlap EXCEPT ![c] =
                    [NewCall(op) EXCEPT !.pc = "grace", !.proc = process]]
    /\ resolved' = {}
    /\ UNCHANGED <<state, process>>

\* The synchronous part of the stop() of call slot c (op: stop or restart):
\* SIGTERM to the handle, then the 500ms grace timer.
StopSync(c, op) ==
    /\ stopHasWork
    /\ state' = "stopping"
    /\ procs' = kill(procs, process)
    /\ sent' = "SIGTERM"
    /\ calls' = [Overlap EXCEPT ![c] =
                    [NewCall(op) EXCEPT !.pc = "grace", !.proc = process]]
    /\ resolved' = {}
    /\ UNCHANGED process

stop(c) ==
    /\ Issuable(c)
    /\ IF ~stopHasWork
       THEN /\ calls' = [Overlap EXCEPT ![c] = DoneCall]
            /\ resolved' = {Resolution(c, NewCall("stop"), "ok", 0, "direct")}
            /\ sent' = "none"
            /\ UNCHANGED <<state, process, procs>>
       ELSE StopSync(c, "stop")
    /\ attempts' = NoteStop(attempts)
    /\ UNCHANGED <<startPromise, configured, timers>>

\* Line 289: the forceful kill is sent only if proc.killed is still false.
needsSigkill(p) == ~procs[p].killed

\* A timer of the stop() of call slot c expires: the grace period (then
\* SIGKILL and a second wait if proc.killed is false) or the second wait;
\* then #cleanup, and for restart() the start() that follows in the same
\* turn of the event loop.
stopTimer(c) ==
    /\ calls[c].pc \in {"grace", "killwait"}
    /\ IF calls[c].pc = "grace" /\ needsSigkill(calls[c].proc)
       THEN /\ procs' = kill(procs, calls[c].proc)
            /\ sent' = "SIGKILL"
            /\ calls' = [calls EXCEPT ![c].pc = "killwait"]
            /\ resolved' = {}
            /\ UNCHANGED <<state, process, startPromise, attempts>>
       ELSE /\ process' = 0
            /\ IF calls[c].op = "stop"
               THEN /\ state' = "stopped"
                    /\ calls' = [calls EXCEPT ![c] = DoneCall]
                    /\ resolved' = {Resolution(c, calls[c], "ok", 0, "waited")}
                    /\ UNCHANGED <<startPromise, attempts>>
               ELSE StartEffect(c, calls[c], "stopped")
            /\ sent' = "none"
            /\ UNCHANGED procs
    /\ UNCHANGED <<configured, timers>>

\* GatewayManager.restart, lines 303-306: await stop(), then start().  With
\* no handle stop() resolves at once and start() runs in the same turn.
restart(c) ==
    /\ Issuable(c)
    /\ IF ~stopHasWork
       THEN /\ StartEffect(c, NewCall("restart"), state)
            /\ sent' = "none"
            /\ UNCHANGED <<process, procs>>
       ELSE /\ StopSync(c, "restart")
            /\ UNCHANGED <<startPromise, attempts>>
    /\ UNCHANGED <<configured, timers>>

----------------------------------------------------------------------------
\* GatewayManager.#doStart, lines 206-266

\* Lines 211-216: config get gateway.trustedProxies returns; set it if the
\* answer shows none.
doStart_getProxies(a, hasProxies) ==
    /\ attempts[a].pc = "preGet"
    /\ attempts' = [attempts EXCEPT ![a].pc =
                        IF hasProxies THEN "preSetAuth" ELSE "preSetProxies"]
    /\ UNCHANGED <<state, process, startPromise, configured, procs, calls,
                   timers>>
    /\ resolved' = {}
    /\ sent' = "none"

\* Lines 215-217: config set gateway.trustedProxies returns.
doStart_setProxies(a) ==
    /\ attempts[a].pc = "preSetProxies"
    /\ attempts' = [attempts EXCEPT ![a].pc = "preSetAuth"]
    /\ UNCHANGED <<state, process, startPromise, configured, procs, calls,
                   timers>>
    /\ resolved' = {}
    /\ sent' = "none"

\* Lines 222-259: the gateway is spawned and becomes the handle; health
\* polling begins.  A spawn failure (ENOENT, EACCES) is reported by the error
\* event before anything else runs, and its handler calls #cleanup.
SpawnGateway(a, spawned) ==
    /\ attempts' = [attempts EXCEPT ![a].pc = "polling"]
    /\ IF spawned
       THEN /\ procs' = [procs EXCEPT ![a].st = "alive"]
            /\ process' = a
            /\ UNCHANGED state
       ELSE /\ procs' = [procs EXCEPT ![a].st = "spawnfail"]
            /\ process' = 0
            /\ state' = "stopped"
    /\ UNCHANGED <<startPromise, configured, calls, timers>>
    /\ resolved' = {}
    /\ sent' = "none"

\* Lines 217-222: config set allowInsecureAuth returns, which ends the
\* pre-flight.
doStart_spawn(a, spawned) ==
    /\ attempts[a].pc = "preSetAuth"
    /\ SpawnGateway(a, spawned)

\* What a caller that was handed #startPromise receives: what #doStart's
\* promise settles to.
JoinerOnSuccess == "undefined"
JoinerOnFailure == "rejected"

\* Attempt a's record once it has ended with pc.
Ended(a, pc) == [attempts[a] EXCEPT !.pc = pc, !.auto = FALSE, !.stopIssued = FALSE]

\* The settlements attempt a's end brings: the call that launched it gets
\* start()'s own return value, a call that was handed #startPromise gets
\* #doStart's.
Deliver(a, toOriginator, toJoiner) ==
    {Resolution(c, calls[c],
                IF calls[c].pc = "await" THEN toOriginator ELSE toJoiner,
                a, calls[c].pc) :
        c \in {d \in Calls : calls[d].att = a /\ calls[d].pc \in {"await", "joined"}}}

\* The call slots once attempt a's callers have their answer.
Settle(a) ==
    [c \in Calls |->
        IF calls[c].att = a /\ calls[c].pc \in {"await", "joined"}
        THEN DoneCall ELSE calls[c]]

\* Lines 268-278 and 265, 196-203: a poll is answered with a status below
\* 500 (some gateway subprocess is up to answer it); #doStart sets running
\* and resolves, start() returns {ok:true} and clears #startPromise.
waitForHealth_ok(a) ==
    /\ attempts[a].pc = "polling"
    /\ \E p \in Attempts : Alive(p)
    /\ state' = "running"
    /\ attempts' = [attempts EXCEPT ![a] = Ended(a, "ok")]
    /\ startPromise' = 0
    /\ calls' = Settle(a)
    /\ resolved' = Deliver(a, "ok", JoinerOnSuccess)
    /\ UNCHANGED <<process, configured, procs, timers>>
    /\ sent' = "none"

\* Lines 260-263 and 199-203: the deadline passes; stop() is called and not
\* awaited, #doStart throws, start() returns {ok:false} and clears
\* #startPromise.
waitForHealth_timeout(a) ==
    /\ attempts[a].pc = "polling"
    /\ IF ~stopHasWork
       THEN /\ attempts' = [attempts EXCEPT ![a] = Ended(a, "failed")]
            /\ sent' = "none"
            /\ UNCHANGED <<state, procs>>
       ELSE /\ state' = "stopping"
            /\ procs' = kill(procs, process)
            /\ sent' = "SIGTERM"
            /\ attempts' = [attempts EXCEPT ![a] =
                    [Ended(a, "failed") EXCEPT !.stop = "grace", !.stopProc = process]]
    /\ startPromise' = 0
    /\ calls' = Settle(a)
    /\ resolved' = Deliver(a, "unhealthy", JoinerOnFailure)
    /\ UNCHANGED <<process, configured, timers>>

\* A timer of the stop() that attempt a's timeout fired expires.
timeoutStopTimer(a) ==
    /\ attempts[a].stop \in {"grace", "killwait"}
    /\ IF attempts[a].stop = "grace" /\ needsSigkill(attempts[a].stopProc)
       THEN /\ procs' = kill(procs, attempts[a].stopProc)
            /\ sent' = "SIGKILL"
            /\ attempts' = [attempts EXCEPT ![a].stop = "killwait"]
            /\ UNCHANGED <<state, process>>
       ELSE /\ process' = 0
            /\ state' = "stopped"
            /\ attempts' = [attempts EXCEPT ![a].stop = "none", ![a].stopProc = 0]
            /\ sent' = "none"
            /\ UNCHANGED procs
    /\ UNCHANGED <<startPromise, configured, calls, timers>>
    /\ resolved' = {}

----------------------------------------------------------------------------
\* The subprocess's exit event, lines 244-257, and the timer it sets

\* wasIntentional with the test inverted.
wasIntentional_Inverted == state # "stopping"

\* wasIntentional taking every exit outside running for an intended one.
wasIntentional_NotRunning == state # "running"

\* wasIntentional taking no exit for an intended one.
wasIntentional_Never == FALSE

\* Line 246
wasIntentional == state = "stopping"

\* Subprocess p exits (on a signal or by itself): #cleanup, and unless a
\* stop() is in progress an auto-restart timer is set.
exit(p) ==
    /\ Alive(p)
    /\ procs' = [procs EXCEPT ![p].st = "exited"]
    /\ process' = 0
    /\ state' = "stopped"
    /\ timers' = IF wasIntentional THEN timers ELSE timers + 1
    /\ UNCHANGED <<startPromise, configured, attempts, calls>>
    /\ resolved' = {}
    /\ sent' = "none"

\* Lines 253-255: the 5s timer fires and calls start().
autoRestart ==
    /\ timers > 0
    /\ timers' = timers - 1
    /\ StartEffect(0, NoCall, state)
    /\ UNCHANGED <<process, configured, procs>>
    /\ sent' = "none"

\* The configuration file is created (setup, import, config write) or
\* deleted (reset, line 638) by a request handler.
configChange ==
    /\ configured' = ~configured
    /\ UNCHANGED <<state, process, startPromise, procs, attempts, calls,
                   timers>>
    /\ resolved' = {}
    /\ sent' = "none"

----------------------------------------------------------------------------
\* The proxy: catch-all middleware, lines 979-1002, and the upgrade handler,
\* lines 1024-1035

\* Lines 996-1000 and 1032-1034: what the handler does with the value its
\* ensure() call settled to.  Reading .ok of undefined or null throws, and a
\* rejection is thrown by the await; neither handler catches.
Outcome(via, res) ==
    CASE res = "ok" -> "forwarded"
      [] res \in {"undefined", "null", "rejected"} -> "threw"
      [] OTHER -> IF via = "http" THEN "503" ELSE "destroyed"

\* The requests answered by this step's settlements, and the requests still
\* waiting for their ensure() call; new holds the request that issued a
\* call in this step, if any, with the call's slot.
Serve(new) ==
    LET cur == reqs \cup new
    IN  /\ responses' =
                {[req |-> x[1].req, res |-> x[2].res,
                  out |-> Outcome(x[1].req.via, x[2].res)] :
                    x \in {y \in cur \X resolved' : y[1].c = y[2].c}}
        /\ reqs' = {q \in cur : Pending(q.c)'}

NoNew == {}

\* The handler answers without calling ensure().
AnswerNow(req, out) ==
    /\ responses' = {[req |-> req, res |-> "none", out |-> out]}
    /\ resolved' = {}
    /\ sent' = "none"
    /\ UNCHANGED <<state, process, startPromise, configured, procs, attempts,
                   calls, timers, reqs>>

\* Lines 968-977
isPublicPath(path) == path = "public"

\* Lines 981, 986: req.path.startsWith("/get-started")
startsWithSetup(path) == path \in {"setup", "setupLike"}

\* Lines 979-1002: an HTTP request reaches the catch-all middleware.
proxyRequest(c, req) ==
    /\ req.via = "http"
    /\ IF ~isConfigured /\ ~startsWithSetup(req.path)
       THEN AnswerNow(req, "redirect")
       ELSE IF ~startsWithSetup(req.path) /\ ~isPublicPath(req.path) /\ ~req.session
       THEN AnswerNow(req, "redirect")
       ELSE IF isConfigured
       THEN ensure(c) /\ Serve({[c |-> c, req |-> req]})
       ELSE AnswerNow(req, "forwarded")

\* Lines 1024-1035: a WebSocket upgrade request.
upgrade(c, req) ==
    /\ req.via = "ws"
    /\ IF ~req.session \/ ~isConfigured
       THEN AnswerNow(req, "destroyed")
       ELSE ensure(c) /\ Serve({[c |-> c, req |-> req]})

\* The Supervisor under arbitrary callers of its four operations.
Next ==
    \/ \E c \in Calls : start(c) /\ Serve(NoNew) /\ UNCHANGED otherVars
    \/ \E c \in Calls : stop(c) /\ Serve(NoNew) /\ UNCHANGED otherVars
    \/ \E c \in Calls : restart(c) /\ Serve(NoNew) /\ UNCHANGED otherVars
    \/ \E c \in Calls : ensure(c) /\ Serve(NoNew) /\ UNCHANGED otherVars
    \/ \E c \in Calls : stopTimer(c) /\ Serve(NoNew) /\ UNCHANGED otherVars
    \/ \E a \in Attempts, h \in BOOLEAN : doStart_getProxies(a, h) /\ Serve(NoNew) /\ UNCHANGED otherVars
    \/ \E a \in Attempts : doStart_setProxies(a) /\ Serve(NoNew) /\ UNCHANGED otherVars
    \/ \E a \in Attempts, s \in BOOLEAN : doStart_spawn(a, s) /\ Serve(NoNew) /\ UNCHANGED otherVars
    \/ \E a \in Attempts : waitForHealth_ok(a) /\ Serve(NoNew) /\ UNCHANGED otherVars
    \/ \E a \in Attempts : waitForHealth_timeout(a) /\ Serve(NoNew) /\ UNCHANGED otherVars
    \/ \E a \in Attempts : timeoutStopTimer(a) /\ Serve(NoNew) /\ UNCHANGED otherVars
    \/ \E p \in Attempts : exit(p) /\ Serve(NoNew) /\ UNCHANGED otherVars
    \/ autoRestart /\ Serve(NoNew) /\ UNCHANGED otherVars
    \/ configChange /\ Serve(NoNew) /\ UNCHANGED otherVars

\* The Supervisor with its ensure() calls made by the proxy handlers.
NextProxy ==
    \/ \E c \in Calls : start(c) /\ Serve(NoNew) /\ UNCHANGED otherVars
    \/ \E c \in Calls : stop(c) /\ Serve(NoNew) /\ UNCHANGED otherVars
    \/ \E c \in Calls : restart(c) /\ Serve(NoNew) /\ UNCHANGED otherVars
    \/ \E c \in Calls, req \in Requests : proxyRequest(c, req) /\ UNCHANGED otherVars
    \/ \E c \in Calls, req \in Requests : upgrade(c, req) /\ UNCHANGED otherVars
    \/ \E c \in Calls : stopTimer(c) /\ Serve(NoNew) /\ UNCHANGED otherVars
    \/ \E a \in Attempts, h \in BOOLEAN : doStart_getProxies(a, h) /\ Serve(NoNew) /\ UNCHANGED otherVars
    \/ \E a \in Attempts : doStart_setProxies(a) /\ Serve(NoNew) /\ UNCHANGED otherVars
    \/ \E a \in Attempts, s \in BOOLEAN : doStart_spawn(a, s) /\ Serve(NoNew) /\ UNCHANGED otherVars
    \/ \E a \in Attempts : waitForHealth_ok(a) /\ Serve(NoNew) /\ UNCHANGED otherVars
    \/ \E a \in Attempts : waitForHealth_timeout(a) /\ Serve(NoNew) /\ UNCHANGED otherVars
    \/ \E a \in Attempts : timeoutStopTimer(a) /\ Serve(NoNew) /\ UNCHANGED otherVars
    \/ \E p \in Attempts : exit(p) /\ Serve(NoNew) /\ UNCHANGED otherVars
    \/ autoRestart /\ Serve(NoNew) /\ UNCHANGED otherVars
    \/ configChange /\ Serve(NoNew) /\ UNCHANGED otherVars

Spec == Init /\ [][Next]_vars

SpecProxy == Init /\ [][NextProxy]_vars

\* An instance whose configuration file exists from the start and is never
\* deleted, and on which the only public calls made are restart() calls.
InitConfigured == Init /\ configured

NextRestarts ==
    \/ \E c \in Calls : restart(c) /\ Serve(NoNew) /\ UNCHANGED otherVars
    \/ \E c \in Calls : stopTimer(c) /\ Serve(NoNew) /\ UNCHANGED otherVars
    \/ \E a \in Attempts, h \in BOOLEAN : doStart_getProxies(a, h) /\ Serve(NoNew) /\ UNCHANGED otherVars
    \/ \E a \in Attempts : doStart_setProxies(a) /\ Serve(NoNew) /\ UNCHANGED otherVars
    \/ \E a \in Attempts, s \in BOOLEAN : doStart_spawn(a, s) /\ Serve(NoNew) /\ UNCHANGED otherVars
    \/ \E a \in Attempts : waitForHealth_ok(a) /\ Serve(NoNew) /\ UNCHANGED otherVars
    \/ \E a \in Attempts : waitForHealth_timeout(a) /\ Serve(NoNew) /\ UNCHANGED otherVars
    \/ \E a \in Attempts : timeoutStopTimer(a) /\ Serve(NoNew) /\ UNCHANGED otherVars
    \/ \E p \in Attempts : exit(p) /\ Serve(NoNew) /\ UNCHANGED otherVars
    \/ autoRestart /\ Serve(NoNew) /\ UNCHANGED otherVars

SpecRestarts == InitConfigured /\ [][NextRestarts]_vars


----------------------------------------------------------------------------
\* Properties

\* Call slot c is issued in this step as a call of op.
Issued(c, op) ==
    /\ calls[c].pc = "idle"
    /\ \/ calls'[c].op = op
       \/ \E r \in resolved' : r.c = c /\ r.op = op

\* Subprocess p exits in this step.
Exits(p) == Alive(p) /\ ~Alive(p)'

LiveProcs == {p \in Attempts : Alive(p)}

StopPending == \E c \in Calls : calls[c].op = "stop" /\ calls[c].pc \in {"grace", "killwait"}

\* C1: every call that shared a start attempt (launched it or was handed its
\* future) resolves to a result object whose ok is the attempt's outcome:
\* {ok:true} if the attempt became healthy, {ok:false} if it did not.
C1_CallersShareOutcome ==
    \A r \in resolved :
        r.att # 0 =>
            /\ attempts[r.att].pc = "ok" => r.res = "ok"
            /\ attempts[r.att].pc = "failed" => r.res = "unhealthy"

\* C2: when a start attempt during which stop() was called ends, and no
\* stop() is still at work, the attempt's subprocess is not alive (so the
\* gateway is not running on it).
C2_StopTearsDownInFlightStart ==
    [][\A a \in Attempts :
            (/\ InFlight(a) /\ ~InFlight(a)'
             /\ attempts[a].stopIssued
             /\ ~StopPending') => ~Alive(a)']_vars

\* C3: every live gateway subprocess is the one the current handle refers
\* to, so at most one is alive.
C3_OnlyHandleAlive == \A p \in Attempts : Alive(p) => process = p

\* C4: when restart() resolves with ok:true, state is running and exactly one
\* gateway subprocess is alive, the one the handle refers to.  (Stated for a
\* restart() that no other public call overlapped, in a run where every
\* spawn succeeded.)
C4_RestartLeavesOneLive ==
    \A r \in resolved :
        (/\ r.op = "restart" /\ r.res = "ok" /\ ~r.overlapped
         /\ \A p \in Attempts : procs[p].st # "spawnfail") =>
            /\ state = "running"
            /\ process # 0
            /\ LiveProcs = {process}

\* C5: with the configuration file absent, a start() call returns the
\* not-configured failure at once and changes neither state, handle, future,
\* attempts nor subprocesses and sends no signal; and no step, whoever calls
\* start() in it, launches a start attempt (its pre-flight and spawn).
C5_UnconfiguredStartRefused ==
    [][/\ \A c \in Calls :
            (Issued(c, "start") /\ ~configured) =>
                /\ \E r \in resolved' :
                        /\ resolved' = {r}
                        /\ r.c = c /\ r.op = "start" /\ r.res = "not_configured"
                /\ calls'[c] = DoneCall
                /\ sent' = "none"
                /\ UNCHANGED <<state, process, startPromise, attempts, procs>>
       /\ ~configured => NextAttempt' = NextAttempt]_vars

\* C5 witness: start() was refused for want of configuration while the
\* gateway was running.
C5_Witness ==
    /\ ~configured
    /\ isRunning
    /\ \E r \in resolved : r.op = "start" /\ r.res = "not_configured"

\* C6: when start() resolves with the health-check failure, state is stopped
\* and the handle is absent.
C6_TimeoutLeavesStopped ==
    \A r \in resolved : r.res = "unhealthy" => (state = "stopped" /\ process = 0)

\* C7: no call rejects: every call that resolves receives a result object.
C7_NeverRejects ==
    \A r \in resolved : r.res \in {"ok", "not_configured", "unhealthy"}

AutoFails(a) ==
    /\ attempts[a].auto
    /\ InFlight(a)
    /\ \/ attempts'[a].pc = "failed"
       \/ /\ procs[a].st \notin {"exited", "spawnfail"}
          /\ procs'[a].st \in {"exited", "spawnfail"}

\* C9 as claimed: the failure of the automatic restart attempt schedules no
\* further automatic restart.
C9_AutoRestartNotRetried ==
    [][\A a \in Attempts : AutoFails(a) => timers' <= timers]_vars

\* C9 amended: an auto-restart timer is set in exactly the steps in which a
\* subprocess exits while state is not stopping, one per step, whatever
\* launched the subprocess; a health-check timeout by itself sets none.
C9_EveryUnexpectedExitRetried ==
    [][/\ timers' > timers <=>
            \E p \in Attempts : Exits(p) /\ state # "stopping"
       /\ timers' <= timers + 1]_vars

\* C9 witness: the subprocess of an automatic restart attempt exited before
\* the attempt became healthy, and another auto-restart timer is pending.
C9_Witness ==
    \E a \in Attempts :
        /\ attempts[a].auto
        /\ attempts[a].pc = "polling"
        /\ procs[a].st = "exited"
        /\ timers > 0

\* C10: a stop() call made when no handle exists returns ok:true at once,
\* sends no signal and changes neither state, handle nor subprocesses; and
\* whenever a stop() resolves the handle is absent, so that a stop() right
\* after it is such a call.
C10_StopIdempotent ==
    [][/\ \A c \in Calls :
            (Issued(c, "stop") /\ process = 0) =>
                /\ \E r \in resolved' :
                        /\ resolved' = {r}
                        /\ r.c = c /\ r.op = "stop" /\ r.res = "ok"
                /\ calls'[c] = DoneCall
                /\ sent' = "none"
                /\ UNCHANGED <<state, process, startPromise, procs, timers>>
       /\ \A r \in resolved' : r.op = "stop" => process' = 0]_vars

\* C10 witness: a stop() call returned at once on a stopped Supervisor whose
\* subprocess an earlier, completed stop() had signalled.
C10_Witness ==
    /\ state = "stopped"
    /\ process = 0
    /\ sent = "none"
    /\ \E r \in resolved : r.op = "stop" /\ r.role = "direct"
    /\ \A c \in Calls : calls[c].pc \notin {"grace", "killwait"}
    /\ \A a \in Attempts : attempts[a].stop = "none"
    /\ \E p \in Attempts : procs[p].killed

\* C11: when the grace period of a stop() ends and the subprocess it
\* signalled has not exited, that step sends it the forceful kill signal.
C11_GraceExpiryEscalates ==
    [][/\ \A c \in Calls :
            (/\ calls[c].pc = "grace" /\ calls'[c].pc # "grace"
             /\ Alive(calls[c].proc)) => sent' = "SIGKILL"
       /\ \A a \in Attempts :
            (/\ attempts[a].stop = "grace" /\ attempts'[a].stop # "grace"
             /\ Alive(attempts[a].stopProc)) => sent' = "SIGKILL"]_vars

\* C12: the handle is present only in starting, running or stopping; in
\* stopped it is absent.
C12_HandleOnlyOutsideStopped == state = "stopped" => process = 0

\* C13: whenever state is starting a start future is installed, and it is
\* the future of an attempt still in flight.
C13_StartingHasFuture ==
    state = "starting" => (startPromise # 0 /\ InFlight(startPromise))

\* C14: a start() whose attempt failed to spawn the gateway returns ok:false
\* with the OS error of the spawn failure.
C14_SpawnErrorSurfaced ==
    \A r \in resolved :
        (r.role = "await" /\ procs[r.att].st = "spawnfail") => r.res = "spawn_error"

\* Call slot c settles in this step, in its synchronous part, with res, and
\* the step changes nothing of the Supervisor and sends no signal.
ReturnsAtOnce(c, op, res) ==
    /\ \E r \in resolved' :
            /\ resolved' = {r}
            /\ r.c = c /\ r.op = op /\ r.res = res /\ r.role = "direct"
    /\ calls'[c] = DoneCall
    /\ sent' = "none"
    /\ UNCHANGED <<state, process, startPromise, attempts, procs, timers>>

\* C15: an ensure() call made while state is running and the handle is
\* present returns ok:true at once, launching no attempt and changing
\* nothing; made in any other situation it does what start() does there:
\* the same return value or the same wait, and an attempt launched exactly
\* when start() would launch one.
C15_EnsureRunningOrStart ==
    [][\A c \in Calls :
            Issued(c, "ensure") =>
                IF state = "running" /\ process # 0
                THEN ReturnsAtOnce(c, "ensure", "ok")
                ELSE LET k == StartOutcome(state)
                     IN  /\ calls'[c] = StartCallRecord(NewCall("ensure"), k, NextAttempt)
                         /\ resolved' = StartReturn(c, NewCall("ensure"), k)
                         /\ NextAttempt' = IF k = "fresh" THEN NextAttempt + 1
                                           ELSE NextAttempt
                         /\ UNCHANGED <<process, procs>>]_vars

\* C15 witness: ensure() returned ok:true at once on a running gateway.
C15_Witness ==
    /\ state = "running"
    /\ process # 0
    /\ Alive(process)
    /\ \E r \in resolved : r.op = "ensure" /\ r.res = "ok" /\ r.role = "direct"

\* C16 as claimed: a start() call made while state is running returns
\* ok:true at once and changes nothing.
C16_StartWhenRunningNoop ==
    [][\A c \in Calls :
            (Issued(c, "start") /\ state = "running") =>
                ReturnsAtOnce(c, "start", "ok")]_vars

\* C16 amended: a start() call made while state is running returns at once
\* and changes nothing; it returns ok:true if the configuration file
\* exists and the not-configured failure if it does not.
C16_StartWhenRunningReturnsAtOnce ==
    [][\A c \in Calls :
            (Issued(c, "start") /\ state = "running") =>
                ReturnsAtOnce(c, "start",
                              IF configured THEN "ok" ELSE "not_configured")]_vars

\* C16 witness: start() returned ok:true at once on a running, configured
\* gateway.
C16_Witness ==
    /\ state = "running"
    /\ configured
    /\ process # 0
    /\ \E r \in resolved : r.op = "start" /\ r.res = "ok" /\ r.role = "direct"

\* No start attempt has missed its health deadline, every spawn succeeded,
\* and no subprocess exited that had not been sent a signal.
GatewayHealthy ==
    \A a \in Attempts :
        /\ attempts[a].pc # "failed"
        /\ procs[a].st # "spawnfail"
        /\ procs[a].st = "exited" => procs[a].killed

\* C17: on an instance whose only public calls are restart() calls: when a
\* restart() that another one overlapped resolves with ok:true, and no call
\* or attempt is left pending, on a gateway that is healthy whenever
\* started, state is running and the handle refers to a live subprocess.
C17_OverlappingRestartsEndRunning ==
    \A r \in resolved :
        (/\ r.op = "restart" /\ r.overlapped /\ r.res = "ok"
         /\ \A c \in Calls : ~Pending(c)
         /\ InFlightSet = {}
         /\ GatewayHealthy) =>
            /\ state = "running"
            /\ process # 0
            /\ Alive(process)

\* C18: an HTTP request is forwarded only if its ensure() call returned
\* ok:true, and a request whose ensure() call settled otherwise is answered
\* with 503.
C18_ForwardOnlyAfterEnsure ==
    \A a \in responses :
        a.req.via = "http" =>
            /\ a.out = "forwarded" => a.res = "ok"
            /\ a.res \notin {"none", "ok"} => a.out = "503"

\* C19: an HTTP request without a valid session is forwarded only if its
\* path begins with a public prefix.
C19_NoSessionNoForward ==
    \A a \in responses :
        (a.req.via = "http" /\ a.out = "forwarded" /\ ~a.req.session) =>
            a.req.path = "public"

\* C20: a WebSocket upgrade is forwarded only with a valid session and an
\* ensure() call that returned ok:true; every other upgrade has its socket
\* destroyed.
C20_UpgradeForwardedOrDestroyed ==
    \A a \in responses :
        a.req.via = "ws" =>
            /\ a.out = "forwarded" => (a.req.session /\ a.res = "ok")
            /\ a.out # "forwarded" => a.out = "destroyed"

\* C25: a stop() call made while a handle exists sets state to stopping in
\* its first step and sends SIGTERM to the handle's subprocess; in the step
\* in which it resolves, it leaves state stopped and the handle absent,
\* whether or not any subprocess is still alive.
C25_StopEndsStopped ==
    [][\A c \in Calls :
            /\ (Issued(c, "stop") /\ process # 0) =>
                    /\ state' = "stopping"
                    /\ sent' = "SIGTERM"
                    /\ calls'[c].pc = "grace"
                    /\ resolved' = {}
            /\ \A r \in resolved' :
                    (r.c = c /\ r.op = "stop" /\ r.role = "waited") =>
                        (state' = "stopped" /\ process' = 0)]_vars

\* C25 witness: a stop() that signalled a subprocess has resolved while that
\* subprocess is still alive; state is stopped and the handle absent.
C25_Witness ==
    /\ state = "stopped"
    /\ process = 0
    /\ \E r \in resolved : r.op = "stop" /\ r.role = "waited"
    /\ \E p \in Attempts : Alive(p) /\ procs[p].killed

\* C26: a subprocess exit observed while state is stopping leaves state
\* stopped and the handle absent and sets no auto-restart timer; an exit
\* observed while state is starting or running sets exactly one.
C26_ExitDuringStopNotRestarted ==
    [][\A p \in Attempts :
            Exits(p) =>
                /\ state' = "stopped"
                /\ process' = 0
                /\ state = "stopping" => timers' = timers
                /\ state \in {"starting", "running"} => timers' = timers + 1]_vars

\* C26 witness: the subprocess exited during the grace period of a stop()
\* call; no timer was set and no automatic restart has been launched.
C26_Witness ==
    /\ state = "stopped"
    /\ timers = 0
    /\ NextAttempt = 2
    /\ procs[1].st = "exited"
    /\ procs[1].killed
    /\ \E c \in Calls : calls[c].op = "stop" /\ calls[c].pc = "grace"

\* C29: in a step taken while the configuration file is absent, an HTTP
\* request whose path is not under the setup path is answered with the
\* redirect, and the handler makes no ensure() call.
C29_UnconfiguredRedirects ==
    [][~configured =>
            /\ \A a \in responses' :
                    (a.req.via = "http" /\ a.req.path # "setup" /\ a.res = "none") =>
                        a.out = "redirect"
            /\ \A q \in reqs' \ reqs : q.req.via # "http"
            /\ \A r \in resolved' :
                    (r.op = "ensure" /\ r.role = "direct") =>
                        \A a \in responses' : a.res = r.res => a.req.via # "http"]_vars

----------------------------------------------------------------------------
\* Sessions of the setup interface, lines 98-116 and 346-372

\* createSession's crypto.randomBytes(32): a value never returned before.
NextToken == Cardinality({t \in Tokens : issued[t] # -1}) + 1

\* A token a request can present: none, a made-up value, or one a login
\* returned.
Presentable == {NoToken, Forged} \cup {t \in Tokens : issued[t] # -1}

\* Line 111 with the comparison >= in place of >.
Expired_AtLimit(created, t) == t - created >= SESSION_MAX_AGE

\* Line 111: Date.now() - session.created > SESSION_MAX_AGE
Expired(created, t) == t - created > SESSION_MAX_AGE

\* Lines 346-365: POST /get-started/api/login.  500 without a setup
\* password, 401 on any other password, else createSession (lines 101-105).
login(pw) ==
    /\ verdict' = NoVerdict
    /\ IF SETUP_PASSWORD # "" /\ pw = SETUP_PASSWORD
       THEN /\ NextToken \in Tokens
            /\ sessions' = [sessions EXCEPT ![NextToken] = now]
            /\ issued' = [issued EXCEPT ![NextToken] = now]
       ELSE UNCHANGED <<sessions, issued>>
    /\ UNCHANGED <<SETUP_PASSWORD, now, loggedOut, expired>>

\* Lines 367-372: POST /get-started/api/logout.
logout(t) ==
    /\ t \in Presentable
    /\ verdict' = NoVerdict
    /\ IF t \in Tokens
       THEN /\ sessions' = [sessions EXCEPT ![t] = -1]
            /\ loggedOut' = loggedOut \cup {t}
       ELSE UNCHANGED <<sessions, loggedOut>>
    /\ UNCHANGED <<SETUP_PASSWORD, now, issued, expired>>

\* Lines 107-116: validateSession(token).
validateSession(t) ==
    /\ t \in Presentable
    /\ IF t = NoToken \/ t \notin Tokens
       THEN /\ verdict' = [token |-> t, ok |-> FALSE, at |-> now]
            /\ UNCHANGED <<sessions, expired>>
       ELSE IF sessions[t] = -1
       THEN /\ verdict' = [token |-> t, ok |-> FALSE, at |-> now]
            /\ UNCHANGED <<sessions, expired>>
       ELSE IF Expired(sessions[t], now)
       THEN /\ sessions' = [sessions EXCEPT ![t] = -1]
            /\ expired' = expired \cup {t}
            /\ verdict' = [token |-> t, ok |-> FALSE, at |-> now]
       ELSE /\ verdict' = [token |-> t, ok |-> TRUE, at |-> now]
            /\ UNCHANGED <<sessions, expired>>
    /\ UNCHANGED <<SETUP_PASSWORD, now, issued, loggedOut>>

\* Time passes.
tick ==
    /\ now < MaxTime
    /\ now' = now + 1
    /\ verdict' = NoVerdict
    /\ UNCHANGED <<SETUP_PASSWORD, sessions, issued, loggedOut, expired>>

\* The session store under any deployment and any sequence of requests.
InitAnyPassword ==
    /\ SETUP_PASSWORD \in {"", "secret"}
    /\ InitSessions
    /\ InitGateway
    /\ InitAdmin
    /\ proxies = "unset"

NextSessions ==
    \/ \E pw \in {"", "secret", "wrong"} : login(pw) /\ UNCHANGED <<gatewayVars, adminVars, imp, afterStop>>
    \/ \E t \in {NoToken, Forged} \cup Tokens : logout(t) /\ UNCHANGED <<gatewayVars, adminVars, imp, afterStop>>
    \/ \E t \in {NoToken, Forged} \cup Tokens : validateSession(t) /\ UNCHANGED <<gatewayVars, adminVars, imp, afterStop>>
    \/ tick /\ UNCHANGED <<gatewayVars, adminVars, imp, afterStop>>

SpecSessions == InitAnyPassword /\ [][NextSessions]_vars

\* C24: validateSession accepts a token exactly when a login with the
\* correct setup password issued it, no logout was requested for it, and it
\* is at most SESSION_MAX_AGE old; a token that was logged out or rejected as
\* expired is not accepted.
C24_AcceptedIffValid ==
    verdict # NoVerdict =>
        LET t == verdict.token
        IN  /\ verdict.ok <=>
                    /\ t \in Tokens
                    /\ issued[t] # -1
                    /\ SETUP_PASSWORD # ""
                    /\ t \notin loggedOut
                    /\ verdict.at - issued[t] <= SESSION_MAX_AGE
            /\ (t \in loggedOut \cup expired) => ~verdict.ok

C24_Witness ==
    /\ verdict.ok
    /\ verdict.at - issued[verdict.token] = SESSION_MAX_AGE
    /\ expired # {}

----------------------------------------------------------------------------
\* The Command Runner, lines 141-175, and the handlers that invoke it

\* OpenClawCLI.#spawn, lines 159-175: what the promise of an invocation that
\* ends as o settles to.  A throw of childProcess.spawn inside the promise
\* executor rejects the promise; the error handler resolves with 127 and the
\* error message appended; the close handler resolves with the exit code.
spawnResult(o) ==
    CASE o.kind = "throw" ->
            [settled |-> "rejected", success |-> FALSE, exitCode |-> null,
             errmsg |-> FALSE]
      [] o.kind = "error" ->
            [settled |-> "resolved", success |-> FALSE, exitCode |-> 127,
             errmsg |-> TRUE]
      [] o.kind = "close" ->
            [settled |-> "resolved", success |-> (o.code = 0),
             exitCode |-> (IF o.code = null THEN 0 ELSE o.code),
             errmsg |-> FALSE]

\* The invocation cmd ended as o.
Invoked(cmd, o) == [cmd |-> cmd, how |-> o, res |-> spawnResult(o)]

\* A config set that succeeded while the file exists changed the file.
Wrote(res) == res.settled = "resolved" /\ res.success /\ configured

\* The run ending without its done event.
Done_NoEvent(r, ok) == [r EXCEPT !.pc = "ended"]

\* Lines 469-471, 629-633: send("done", ...) and res.end().
Done(r, ok) ==
    [r EXCEPT !.pc = "ended", !.done = IF r.done < 2 THEN r.done + 1 ELSE 2,
              !.last = "done", !.ok = IF ok THEN "true" ELSE "false"]

\* Lines 626-633: the run r0 is waiting for its restart(), which this step
\* settles or not.  Whatever restart() resolves to is ignored; a rejection
\* is caught.
Await(r0) ==
    IF r0.pc = "restart" /\ \E r \in resolved' : r.c = r0.call
    THEN Done(r0, \A r \in resolved' : r.c = r0.call => r.res # "rejected")
    ELSE r0

\* Lines 866, 944 and 946 seen from the import: the import i is waiting for
\* its stop(), its start() or its restart(), which this step settles or
\* not.  Once stop() has resolved the archive is written out and tar.x
\* begins (lines 869-874); once start() or restart() has settled the answer
\* is sent.
Resume(i) ==
    IF i.pc \in {"stopping", "start", "restart"} /\ \E r \in resolved' : r.c = i.call
    THEN [i EXCEPT !.pc = IF i.pc = "stopping" THEN "extract" ELSE "ended"]
    ELSE i

\* A step in which no Command Runner invocation settles and no setup
\* endpoint is entered.
QuietAdmin ==
    /\ cli' = NoCli
    /\ write' = NoWrite
    /\ run' = Await(run)
    /\ imp' = Resume(imp)
    /\ UNCHANGED <<proxies, cliFailed, afterStop>>

\* Such a step in which no session is created, checked or deleted either.
Quiet == QuietAdmin /\ UNCHANGED sessionVars

\* The pre-flight treating a failed invocation as fatal.
preflightNext_Fatal(pc, res, has) ==
    IF res.settled = "rejected" \/ ~res.success THEN "failed"
    ELSE CASE pc = "preGet" -> IF has THEN "preSetAuth" ELSE "preSetProxies"
           [] pc = "preSetProxies" -> "preSetAuth"
           [] pc = "preSetAuth" -> "spawn"

\* Lines 210-222: where #doStart goes when the pre-flight invocation it
\* awaits at pc settles as res; has: gateway.trustedProxies has a value, which
\* the output of a successful config get shows.  A rejection is caught (line
\* 219) and ends the pre-flight.
preflightNext(pc, res, has) ==
    IF res.settled = "rejected" THEN "spawn"
    ELSE CASE pc = "preGet" ->
                IF res.success /\ has THEN "preSetAuth" ELSE "preSetProxies"
           [] pc = "preSetProxies" -> "preSetAuth"
           [] pc = "preSetAuth" -> "spawn"

\* Lines 210-259: a pre-flight invocation of attempt a settles as o.
preflight(a, o, spawned) ==
    LET pc == attempts[a].pc
        res == spawnResult(o)
        nxt == preflightNext(pc, res, proxies # "unset")
    IN  /\ pc \in {"preGet", "preSetProxies", "preSetAuth"}
        /\ cli' = Invoked(pc, o)
        /\ cliFailed' = IF res.settled = "rejected" \/ ~res.success
                        THEN cliFailed \cup {a} ELSE cliFailed
        /\ proxies' = IF pc = "preSetProxies" /\ Wrote(res)
                      THEN "default" ELSE proxies
        /\ IF nxt = "spawn"
           THEN SpawnGateway(a, spawned)
           ELSE /\ attempts' = [attempts EXCEPT ![a].pc = nxt]
                /\ UNCHANGED <<state, process, startPromise, configured,
                               procs, calls, timers>>
                /\ resolved' = {}
                /\ sent' = "none"
        /\ write' = NoWrite
        /\ run' = Await(run)
        /\ UNCHANGED <<sessionVars, imp, afterStop>>

\* Lines 392-417 and 483: a setup run begins.  Anything thrown in the run
\* (here mkdirSync, or a body field that is no string) is caught at line 630.
run_begin(throws) ==
    LET r == [NoRun EXCEPT !.had = isConfigured]
    IN  /\ run.pc \in {"idle", "ended"}
        /\ run' = IF throws THEN Done(r, FALSE)
                  ELSE IF ~isConfigured
                  THEN [r EXCEPT !.pc = "onboard", !.onboard = TRUE,
                                 !.last = "progress"]
                  ELSE [r EXCEPT !.pc = "setAuthMode", !.last = "progress"]
        /\ cli' = NoCli
        /\ write' = NoWrite
        /\ resolved' = {}
        /\ sent' = "none"
        /\ UNCHANGED <<state, process, startPromise, configured, procs,
                       attempts, calls, timers, proxies, cliFailed,
                       sessionVars, imp, afterStop>>

\* Lines 464-488: onboard settles as o; created: it wrote a configuration
\* file.
run_onboard(o, created) ==
    LET res == spawnResult(o)
        made == created /\ o.kind = "close" /\ ~configured
    IN  /\ run.pc = "onboard"
        /\ cli' = Invoked("onboard", o)
        /\ configured' = (configured \/ made)
        /\ proxies' = IF made THEN "unset" ELSE proxies
        /\ run' = IF res.settled = "rejected" \/ ~res.success \/ ~configured'
                  THEN Done(run, FALSE)
                  ELSE [run EXCEPT !.pc = "setAuthMode", !.last = "progress"]
        /\ write' = NoWrite
        /\ resolved' = {}
        /\ sent' = "none"
        /\ UNCHANGED <<state, process, startPromise, procs, attempts, calls,
                       timers, cliFailed, sessionVars, imp, afterStop>>

\* Lines 487-624: the config sets of a setup run, in order; setExtra stands
\* for those of the provider and the channels the request names.
AfterSet(pc, extra) ==
    CASE pc = "setAuthMode" -> "setAuthToken"
      [] pc = "setAuthToken" -> "setBind"
      [] pc = "setBind" -> "setPort"
      [] pc = "setPort" -> "setProxies"
      [] pc = "setProxies" -> "setInsecure"
      [] pc = "setInsecure" -> "setBrowser"
      [] pc = "setBrowser" -> IF extra THEN "setExtra" ELSE "restart"
      [] pc = "setExtra" -> "restart"

\* Lines 487-630: a config set of the setup run settles as o; its result is
\* not looked at.  After the last one the run calls gateway.restart() (line
\* 626), with call slot c.
run_set(o, extra, c) ==
    LET res == spawnResult(o)
        nxt == AfterSet(run.pc, extra)
    IN  /\ run.pc \in {"setAuthMode", "setAuthToken", "setBind", "setPort",
                       "setProxies", "setInsecure", "setBrowser", "setExtra"}
        /\ cli' = Invoked(run.pc, o)
        /\ proxies' = IF run.pc = "setProxies" /\ Wrote(res)
                      THEN "default" ELSE proxies
        /\ write' = NoWrite
        /\ UNCHANGED <<cliFailed, sessionVars, imp, afterStop>>
        /\ IF res.settled = "rejected"
           THEN /\ run' = Done(run, FALSE)
                /\ resolved' = {}
                /\ sent' = "none"
                /\ UNCHANGED <<state, process, startPromise, configured,
                               procs, attempts, calls, timers>>
           ELSE IF nxt = "restart"
           THEN /\ restart(c)
                /\ run' = Await([run EXCEPT !.pc = "restart", !.call = c,
                                            !.last = "progress"])
           ELSE /\ run' = [run EXCEPT !.pc = nxt, !.last = "progress"]
                /\ resolved' = {}
                /\ sent' = "none"
                /\ UNCHANGED <<state, process, startPromise, configured,
                               procs, attempts, calls, timers>>

\* Lines 636-643: POST /get-started/api/reset deletes the configuration file.
reset ==
    /\ configured
    /\ configChange
    /\ proxies' = "unset"
    /\ cli' = NoCli
    /\ write' = NoWrite
    /\ run' = Await(run)
    /\ UNCHANGED <<cliFailed, imp, afterStop>>

\* Lines 659-675: POST /get-started/api/config.  valid: the body's config is
\* an object; content: what it holds for gateway.trustedProxies.  With
\* restartGateway and isRunning the handler calls restart(), whose stop() has
\* a handle to signal (lines 303-306, 281-286).
configWrite(c, valid, restartGateway, content) ==
    /\ write' = [outcome |-> IF valid THEN "written" ELSE "invalid",
                 restartGateway |-> restartGateway]
    /\ cli' = NoCli
    /\ UNCHANGED <<cliFailed, imp, afterStop>>
    /\ configured' = (configured \/ valid)
    /\ proxies' = IF valid THEN content ELSE proxies
    /\ IF valid /\ restartGateway /\ isRunning
       THEN /\ Issuable(c)
            /\ StopSync(c, "restart")
            /\ UNCHANGED <<startPromise, attempts, timers>>
       ELSE /\ resolved' = {}
            /\ sent' = "none"
            /\ UNCHANGED <<state, process, startPromise, procs, attempts,
                           calls, timers>>
    /\ run' = Await(run)

\* Setup runs in front of the Supervisor, over a configuration file that the
\* operator may have edited before.
InitSetup ==
    /\ SETUP_PASSWORD = "secret"
    /\ InitSessions
    /\ InitGateway
    /\ InitAdmin
    /\ proxies \in IF configured THEN {"unset", "default", "operator"}
                   ELSE {"unset"}

NextSetup ==
    \/ \E t \in BOOLEAN : run_begin(t) /\ Serve(NoNew)
    \/ \E o \in CliOutcomes, m \in BOOLEAN : run_onboard(o, m) /\ Serve(NoNew)
    \/ \E o \in CliOutcomes, x \in BOOLEAN, c \in Calls : run_set(o, x, c) /\ Serve(NoNew)
    \/ \E a \in Attempts, o \in CliOutcomes, s \in BOOLEAN : preflight(a, o, s) /\ Serve(NoNew)
    \/ \E c \in Calls : stopTimer(c) /\ Serve(NoNew) /\ Quiet
    \/ \E a \in Attempts : waitForHealth_ok(a) /\ Serve(NoNew) /\ Quiet
    \/ \E a \in Attempts : waitForHealth_timeout(a) /\ Serve(NoNew) /\ Quiet
    \/ \E a \in Attempts : timeoutStopTimer(a) /\ Serve(NoNew) /\ Quiet
    \/ \E p \in Attempts : exit(p) /\ Serve(NoNew) /\ Quiet
    \/ autoRestart /\ Serve(NoNew) /\ Quiet

SpecSetup == InitSetup /\ [][NextSetup]_vars

\* C21: a setup run that began with the configuration present invokes no
\* onboard and, when it ends well, has called restart(); a run sends no done
\* event before it ends and exactly one when it ends, as its last event.
C21_RerunSkipsOnboardOneDone ==
    /\ run.had => ~run.onboard
    /\ (run.had /\ run.pc \notin {"idle", "ended"}) => cli.cmd # "onboard"
    /\ (run.had /\ run.ok = "true") => run.call # 0
    /\ run.pc # "ended" => (run.done = 0 /\ run.last # "done")
    /\ run.pc = "ended" => (run.done = 1 /\ run.last = "done" /\ run.ok # "none")

C21_Witness ==
    /\ run.had /\ run.pc = "ended" /\ run.ok = "true" /\ run.call # 0
    /\ state = "running"

\* C22: a step that issues config set gateway.trustedProxies (the pre-flight
\* after its config get, the setup run after its config set gateway.port)
\* does so only while the file holds no operator-set value.
C22_ProxiesSetOnlyWhenUnset ==
    [][(\/ \E a \in Attempts : /\ attempts[a].pc # "preSetProxies"
                               /\ attempts'[a].pc = "preSetProxies"
        \/ run.pc # "setProxies" /\ run'.pc = "setProxies")
            => proxies' # "operator"]_vars

\* C23: a Command Runner invocation resolves and never rejects; a nonzero
\* exit gives success=false with that exit code, a spawn failure gives
\* success=false, exit code 127 and the error message in the output.
C23_RunnerNeverRejects ==
    cli # NoCli =>
        /\ cli.res.settled = "resolved"
        /\ (cli.how.kind = "close" /\ cli.how.code \notin {0, null}) =>
                (~cli.res.success /\ cli.res.exitCode = cli.how.code)
        /\ cli.how.kind \in {"error", "throw"} =>
                (~cli.res.success /\ cli.res.exitCode = 127 /\ cli.res.errmsg)

\* C27: a step in which a pre-flight invocation of a start attempt fails
\* (nonzero exit, spawn failure, rejection) leaves the attempt in progress
\* and settles no caller; when it ends the pre-flight the gateway spawn was
\* made.
C27_PreflightFailureNotFatal ==
    [][\A a \in Attempts :
            (/\ attempts[a].pc \in {"preGet", "preSetProxies", "preSetAuth"}
             /\ attempts'[a].pc # attempts[a].pc
             /\ cli'.res.settled = "rejected" \/ ~cli'.res.success) =>
                /\ a \in cliFailed'
                /\ attempts'[a].pc \in {"preSetProxies", "preSetAuth", "polling"}
                /\ resolved' = {}
                /\ attempts'[a].pc = "polling" =>
                        procs'[a].st \in {"alive", "spawnfail"}]_vars

C27_Witness ==
    \E a \in cliFailed :
        /\ attempts[a].pc = "ok" /\ state = "running" /\ process = a
        /\ \E r \in resolved : r.att = a /\ r.res = "ok"

\* The config write and reset endpoints in front of a Supervisor that the
\* server started at boot (lines 1013-1015).
NextWrite ==
    \/ \E c \in Calls : start(c) /\ Serve(NoNew) /\ Quiet
    \/ \E c \in Calls, v, g \in BOOLEAN, k \in {"unset", "operator"} :
            configWrite(c, v, g, k) /\ Serve(NoNew) /\ UNCHANGED sessionVars
    \/ reset /\ Serve(NoNew) /\ UNCHANGED sessionVars
    \/ \E c \in Calls : stopTimer(c) /\ Serve(NoNew) /\ Quiet
    \/ \E a \in Attempts, h \in BOOLEAN : doStart_getProxies(a, h) /\ Serve(NoNew) /\ Quiet
    \/ \E a \in Attempts : doStart_setProxies(a) /\ Serve(NoNew) /\ Quiet
    \/ \E a \in Attempts, s \in BOOLEAN : doStart_spawn(a, s) /\ Serve(NoNew) /\ Quiet
    \/ \E a \in Attempts : waitForHealth_ok(a) /\ Serve(NoNew) /\ Quiet
    \/ \E a \in Attempts : waitForHealth_timeout(a) /\ Serve(NoNew) /\ Quiet
    \/ \E a \in Attempts : timeoutStopTimer(a) /\ Serve(NoNew) /\ Quiet
    \/ \E p \in Attempts : exit(p) /\ Serve(NoNew) /\ Quiet
    \/ autoRestart /\ Serve(NoNew) /\ Quiet

SpecWrite == InitSetup /\ [][NextWrite]_vars

\* C28: a config write that wrote the file calls restart() exactly when the
\* caller set restartGateway and the gateway was running (state running with
\* a handle); otherwise it issues no call and leaves state, handle and start
\* promise as they were.
C28_WriteRestartsIffAskedAndRunning ==
    [][write'.outcome = "written" =>
            /\ configured'
            /\ IF write'.restartGateway /\ state = "running" /\ process # 0
               THEN /\ \E c \in Calls : /\ calls[c].op = "none"
                                        /\ calls'[c].op = "restart"
                    /\ state' = "stopping"
                    /\ sent' = "SIGTERM"
               ELSE /\ calls' = calls
                    /\ state' = state
                    /\ process' = process
                    /\ startPromise' = startPromise
                    /\ sent' = "none"]_vars

C28_Witness ==
    /\ write.outcome = "written" /\ write.restartGateway
    /\ state = "stopping"
    /\ \E c \in Calls : calls[c].op = "restart" /\ calls[c].pc = "grace"

----------------------------------------------------------------------------
\* POST /get-started/import in full mode, lines 852-955

\* Lines 852-874: the request arrives; valid: the data directories are under
\* /data and the body is a non-empty buffer; memoryOnly: the query says
\* mode=memory.  A full import awaits stop(), with call slot c; a
\* memory-only import goes on to tar.x.
import_begin(c, valid, memoryOnly) ==
    /\ imp.pc \in {"idle", "ended"}
    /\ IF valid /\ ~memoryOnly
       THEN /\ stop(c)
            /\ imp' = Resume([imp EXCEPT !.pc = "stopping", !.mode = "full",
                                         !.call = c])
       ELSE /\ imp' = IF valid
                      THEN [imp EXCEPT !.pc = "extract", !.mode = "memory"]
                      ELSE [imp EXCEPT !.pc = "ended"]
            /\ resolved' = {}
            /\ sent' = "none"
            /\ UNCHANGED <<state, process, startPromise, configured, procs,
                           attempts, calls, timers>>
    /\ cli' = NoCli
    /\ write' = NoWrite
    /\ run' = Await(run)
    /\ UNCHANGED <<proxies, cliFailed, sessionVars, afterStop>>

\* Lines 874-943: tar.x settles; ok: it and the copy that follows did not
\* throw.  Everything in the archive is copied over the data directory:
\* hasConfig, hasToken: the archive holds a configuration file, a token
\* file; k: the archive's gateway.trustedProxies.  With a configuration in
\* place the handler invokes config set gateway.auth.token.
import_extracted(ok, hasConfig, hasToken, k) ==
    /\ imp.pc = "extract"
    /\ imp.mode = "full"
    /\ IF ok
       THEN /\ configured' = (configured \/ hasConfig)
            /\ proxies' = IF hasConfig THEN k ELSE proxies
            /\ imp' = [imp EXCEPT
                    !.pc = IF configured' THEN "setToken" ELSE "ended",
                    !.cfgToken = IF hasConfig THEN "archive" ELSE @,
                    !.tokenFile = IF hasToken THEN "archive" ELSE @]
       ELSE /\ imp' = [imp EXCEPT !.pc = "ended"]
            /\ UNCHANGED <<configured, proxies>>
    /\ resolved' = {}
    /\ sent' = "none"
    /\ cli' = NoCli
    /\ write' = NoWrite
    /\ run' = Await(run)
    /\ UNCHANGED <<state, process, startPromise, procs, attempts, calls,
                   timers, cliFailed, sessionVars, afterStop>>

\* Lines 874-947 of a memory-only import: tar.x settles and the workspace,
\* the agents tree and the skills are copied.  thrown: the call that throws,
\* if any (tar.x, the cpSync of the agents tree, the cpSync of the skills);
\* hasAuth: the archive holds a file at the path of the auth-profiles.json
\* and the cpSync of the agents tree got to it; readable: findAuthFiles
\* could read the existing file (it swallows its errors, lines 903-911).
\* The file is rewritten from the saved content after the cpSync of the
\* agents tree returns (lines 916-918).  With the gateway running the
\* handler awaits restart(), with call slot c.
import_memory(thrown, hasAuth, readable, c) ==
    LET saved == imp.auth # "none" /\ readable
        copied == IF hasAuth THEN "archive" ELSE imp.auth
        restored == IF saved THEN imp.auth ELSE copied
    IN  /\ imp.pc = "extract"
        /\ imp.mode = "memory"
        /\ cli' = NoCli
        /\ write' = NoWrite
        /\ run' = Await(run)
        /\ UNCHANGED <<proxies, cliFailed, sessionVars, afterStop>>
        /\ IF thrown = "none" /\ isRunning
           THEN /\ restart(c)
                /\ imp' = Resume([imp EXCEPT !.pc = "restart", !.call = c,
                                             !.auth = restored])
           ELSE /\ imp' = [imp EXCEPT
                        !.pc = "ended",
                        !.auth = CASE thrown = "tar" -> @
                                   [] thrown = "agents" -> copied
                                   [] OTHER -> restored]
                /\ resolved' = {}
                /\ sent' = "none"
                /\ UNCHANGED <<state, process, startPromise, configured,
                               procs, attempts, calls, timers>>

\* Lines 942-944: config set gateway.auth.token settles as o (its result is
\* not looked at; a rejection is caught at line 951); written: the
\* writeFileSync of the token file did not throw.  Then start() is called,
\* with call slot c.
import_tokenSet(o, written, c) ==
    LET res == spawnResult(o)
        set == IF Wrote(res) THEN [imp EXCEPT !.cfgToken = "ours"] ELSE imp
    IN  /\ imp.pc = "setToken"
        /\ cli' = Invoked("importSetToken", o)
        /\ write' = NoWrite
        /\ run' = Await(run)
        /\ UNCHANGED <<proxies, cliFailed, sessionVars, afterStop>>
        /\ IF res.settled = "rejected" \/ ~written
           THEN /\ imp' = [IF res.settled = "rejected" THEN imp ELSE set
                                EXCEPT !.pc = "ended"]
                /\ resolved' = {}
                /\ sent' = "none"
                /\ UNCHANGED <<state, process, startPromise, configured,
                               procs, attempts, calls, timers>>
           ELSE /\ start(c)
                /\ imp' = Resume([set EXCEPT !.pc = "start", !.call = c,
                                             !.tokenFile = "ours"])

\* The import endpoint in front of a Supervisor that the server started at
\* boot (lines 1013-1015); the configuration, if there is one, holds this
\* process's token, and so does the token file unless the token came from
\* the environment (lines 78-95).
InitImport ==
    /\ SETUP_PASSWORD = "secret"
    /\ InitSessions
    /\ InitGateway
    /\ cli = NoCli /\ cliFailed = {} /\ run = NoRun /\ write = NoWrite
    /\ proxies = "unset"
    /\ \E f, g \in {"none", "ours"} :
            imp = [NoImport EXCEPT
                        !.cfgToken = IF configured THEN "ours" ELSE "none",
                        !.tokenFile = f,
                        !.auth = g]

NextImport ==
    \/ \E c \in Calls : start(c) /\ Serve(NoNew) /\ Quiet
    \/ \E c \in Calls, v, m \in BOOLEAN : import_begin(c, v, m) /\ Serve(NoNew)
    \/ \E ok, hc, ht \in BOOLEAN, k \in {"unset", "operator"} :
            import_extracted(ok, hc, ht, k) /\ Serve(NoNew)
    \/ \E o \in CliOutcomes, w \in BOOLEAN, c \in Calls :
            import_tokenSet(o, w, c) /\ Serve(NoNew)
    \/ \E th \in {"none", "tar", "agents", "skills"}, ha, rd \in BOOLEAN,
          c \in Calls :
            import_memory(th, ha, rd, c) /\ Serve(NoNew)
    \/ \E c \in Calls : stopTimer(c) /\ Serve(NoNew) /\ Quiet
    \/ \E a \in Attempts, h \in BOOLEAN : doStart_getProxies(a, h) /\ Serve(NoNew) /\ Quiet
    \/ \E a \in Attempts : doStart_setProxies(a) /\ Serve(NoNew) /\ Quiet
    \/ \E a \in Attempts, s \in BOOLEAN : doStart_spawn(a, s) /\ Serve(NoNew) /\ Quiet
    \/ \E a \in Attempts : waitForHealth_ok(a) /\ Serve(NoNew) /\ Quiet
    \/ \E a \in Attempts : waitForHealth_timeout(a) /\ Serve(NoNew) /\ Quiet
    \/ \E a \in Attempts : timeoutStopTimer(a) /\ Serve(NoNew) /\ Quiet
    \/ \E p \in Attempts : exit(p) /\ Serve(NoNew) /\ Quiet
    \/ autoRestart /\ Serve(NoNew) /\ Quiet

SpecImport == InitImport /\ [][NextImport]_vars

\* C30: when a full import calls start(), the configuration's
\* gateway.auth.token and the token file both hold this process's
\* GATEWAY_TOKEN.
C30_TokenWrittenBeforeStart ==
    [][(/\ imp.pc = "setToken"
        /\ imp'.pc \in {"start", "ended"}
        /\ \E c \in Calls : calls[c].op = "none" /\ calls'[c].op = "start")
            => (imp'.cfgToken = "ours" /\ imp'.tokenFile = "ours")]_vars

\* C32: when a subprocess that is not the current handle exits, state, handle
\* and the pending auto-restart timers stay as they are.
C32_StaleExitIgnored ==
    [][\A p \in Attempts :
            (Exits(p) /\ process # p) =>
                (state' = state /\ process' = process /\ timers' = timers)]_vars

\* C33: whenever state is running the handle is present and the subprocess
\* it refers to is alive.
C33_RunningHasLiveHandle ==
    state = "running" => (process # 0 /\ Alive(process))

\* C38: in every Command Result success is true exactly when exitCode is 0.
C38_SuccessIffExitZero ==
    (cli # NoCli /\ cli.res.settled = "resolved") =>
        (cli.res.success <=> cli.res.exitCode = 0)

----------------------------------------------------------------------------
\* The Supervisor with the history of its stop() calls

\* afterStop once this step is taken: a caller that invokes start(),
\* ensure() or restart() asks for the gateway; a stop() that resolves while
\* no call is pending leaves nobody asking for it.
Track ==
    afterStop' =
        IF \E c \in Calls, op \in {"start", "ensure", "restart"} : Issued(c, op)
        THEN FALSE
        ELSE IF /\ \E r \in resolved' : r.op = "stop"
                /\ \A c \in Calls : ~Pending(c)'
        THEN TRUE
        ELSE afterStop

\* What neither the Supervisor nor its callers touch.
setupVars == <<sessionVars, adminVars, imp>>

NextTracked ==
    \/ \E c \in Calls : start(c) /\ Serve(NoNew) /\ Track /\ UNCHANGED setupVars
    \/ \E c \in Calls : stop(c) /\ Serve(NoNew) /\ Track /\ UNCHANGED setupVars
    \/ \E c \in Calls : restart(c) /\ Serve(NoNew) /\ Track /\ UNCHANGED setupVars
    \/ \E c \in Calls : ensure(c) /\ Serve(NoNew) /\ Track /\ UNCHANGED setupVars
    \/ \E c \in Calls : stopTimer(c) /\ Serve(NoNew) /\ Track /\ UNCHANGED setupVars
    \/ \E a \in Attempts, h \in BOOLEAN : doStart_getProxies(a, h) /\ Serve(NoNew) /\ Track /\ UNCHANGED setupVars
    \/ \E a \in Attempts : doStart_setProxies(a) /\ Serve(NoNew) /\ Track /\ UNCHANGED setupVars
    \/ \E a \in Attempts, s \in BOOLEAN : doStart_spawn(a, s) /\ Serve(NoNew) /\ Track /\ UNCHANGED setupVars
    \/ \E a \in Attempts : waitForHealth_ok(a) /\ Serve(NoNew) /\ Track /\ UNCHANGED setupVars
    \/ \E a \in Attempts : waitForHealth_timeout(a) /\ Serve(NoNew) /\ Track /\ UNCHANGED setupVars
    \/ \E a \in Attempts : timeoutStopTimer(a) /\ Serve(NoNew) /\ Track /\ UNCHANGED setupVars
    \/ \E p \in Attempts : exit(p) /\ Serve(NoNew) /\ Track /\ UNCHANGED setupVars
    \/ autoRestart /\ Serve(NoNew) /\ Track /\ UNCHANGED setupVars

SpecTracked == InitConfigured /\ [][NextTracked]_vars

\* C34: once a stop() has resolved, with no other call pending, no gateway
\* subprocess is spawned until a caller invokes start(), ensure() or
\* restart().
C34_NoSpawnAfterStop ==
    [][afterStop =>
            \A a \in Attempts : ~(procs[a].st = "none" /\ procs'[a].st = "alive")]_vars

\* C35: from the moment a full import's stop() has resolved until its copy
\* into the data directory has finished (the import stands at extract), no
\* gateway subprocess is alive and none is spawned.
C35_NoGatewayDuringCopy ==
    [][(imp.pc = "extract" /\ imp.mode = "full") =>
            /\ \A p \in Attempts : ~Alive(p)
            /\ \A a \in Attempts : procs'[a].st = "alive" => procs[a].st = "alive"]_vars

\* C36: a setup run that reached its restart() (its onboarding, if it ran,
\* succeeded and no step before threw) ends with done ok:true, whatever
\* becomes of the restart.
C36_OutcomeIgnoresRestart ==
    (run.pc = "ended" /\ run.call # 0) => run.ok = "true"

----------------------------------------------------------------------------
\* The session gate in front of the setup endpoints and the proxy

\* A handler that makes no session check leaves the session store alone.
NoSessionCheck ==
    /\ verdict' = NoVerdict
    /\ UNCHANGED <<SETUP_PASSWORD, sessions, now, issued, loggedOut, expired>>

\* What validateSession(t) would answer now (lines 107-116).
Accepts(t) ==
    /\ t \in Tokens
    /\ sessions[t] # -1
    /\ ~Expired(sessions[t], now)

\* Lines 332-343: requireAuth with the request's token t; without a setup
\* password it answers 500 before any session is looked at.
requireAuth(t) ==
    IF SETUP_PASSWORD = "" THEN NoSessionCheck ELSE validateSession(t)

\* requireAuth called next(): what the step's requireAuth(t) decided.
Passed == SETUP_PASSWORD # "" /\ verdict'.ok

\* requireAuth answered 500 or 401: the handler does not run.
Refused ==
    /\ resolved' = {}
    /\ sent' = "none"
    /\ UNCHANGED <<state, process, startPromise, configured, procs, attempts,
                   calls, timers>>
    /\ QuietAdmin

\* Lines 636-643 behind requireAuth.
authedReset(t) ==
    /\ requireAuth(t)
    /\ IF Passed THEN reset ELSE Refused

\* Lines 659-675 behind requireAuth.
authedConfigWrite(t, c, valid, restartGateway, content) ==
    /\ requireAuth(t)
    /\ IF Passed THEN configWrite(c, valid, restartGateway, content)
       ELSE Refused

\* Lines 986-991 and 1026-1027: the proxy handlers call validateSession for
\* an upgrade, and for an HTTP request that was not redirected for want of
\* a configuration and whose path begins neither with /get-started nor with
\* a public prefix.
checksSession(req) ==
    \/ req.via = "ws"
    /\ req.via = "http"
    /\ isConfigured
    /\ ~startsWithSetup(req.path)
    /\ ~isPublicPath(req.path)

\* Lines 979-1002: an HTTP request that carries token t reaches the
\* catch-all.
tokenRequest(c, req, t) ==
    /\ req.session = Accepts(t)
    /\ IF checksSession(req) THEN validateSession(t) ELSE NoSessionCheck
    /\ proxyRequest(c, req)
    /\ QuietAdmin

\* Lines 1024-1035: a WebSocket upgrade that carries token t.
tokenUpgrade(c, req, t) ==
    /\ req.session = Accepts(t)
    /\ validateSession(t)
    /\ upgrade(c, req)
    /\ QuietAdmin

\* A deployment without a setup password, whatever is on its volume. Its
\* only callers of the Supervisor are the boot start and the proxy's
\* ensure(): stop() and restart() sit behind requireAuth.
InitNoPassword ==
    /\ SETUP_PASSWORD = ""
    /\ InitSessions
    /\ InitGateway
    /\ InitAdmin
    /\ proxies \in IF configured THEN {"unset", "operator"} ELSE {"unset"}

NextGate ==
    \/ \E pw \in {"", "secret", "wrong"} :
            login(pw) /\ UNCHANGED <<gatewayVars, adminVars, imp, afterStop>>
    \/ \E t \in {NoToken, Forged} \cup Tokens :
            validateSession(t) /\ UNCHANGED <<gatewayVars, adminVars, imp, afterStop>>
    \/ \E t \in {NoToken, Forged} \cup Tokens :
            logout(t) /\ UNCHANGED <<gatewayVars, adminVars, imp, afterStop>>
    \/ \E t \in {NoToken, Forged} \cup Tokens : authedReset(t) /\ Serve(NoNew)
    \/ \E t \in {NoToken, Forged} \cup Tokens, c \in Calls, v, g \in BOOLEAN,
          k \in {"unset", "operator"} :
            authedConfigWrite(t, c, v, g, k) /\ Serve(NoNew)
    \/ \E c \in Calls, req \in Requests, t \in {NoToken, Forged} \cup Tokens :
            tokenRequest(c, req, t)
    \/ \E c \in Calls, req \in Requests, t \in {NoToken, Forged} \cup Tokens :
            tokenUpgrade(c, req, t)
    \/ \E c \in Calls : start(c) /\ Serve(NoNew) /\ Quiet
    \/ \E a \in Attempts, h \in BOOLEAN : doStart_getProxies(a, h) /\ Serve(NoNew) /\ Quiet
    \/ \E a \in Attempts : doStart_setProxies(a) /\ Serve(NoNew) /\ Quiet
    \/ \E a \in Attempts, s \in BOOLEAN : doStart_spawn(a, s) /\ Serve(NoNew) /\ Quiet
    \/ \E a \in Attempts : waitForHealth_ok(a) /\ Serve(NoNew) /\ Quiet
    \/ \E a \in Attempts : waitForHealth_timeout(a) /\ Serve(NoNew) /\ Quiet
    \/ \E a \in Attempts : timeoutStopTimer(a) /\ Serve(NoNew) /\ Quiet
    \/ \E p \in Attempts : exit(p) /\ Serve(NoNew) /\ Quiet
    \/ autoRestart /\ Serve(NoNew) /\ Quiet

SpecNoPassword == InitNoPassword /\ [][NextGate]_vars

\* C37: without a setup password no step creates a session, no session
\* check succeeds, no protected handler runs (the configuration file is
\* neither written nor deleted), and the only requests forwarded to the
\* gateway are HTTP requests on a setup path or a public path.
C37_NoPasswordNoAccess ==
    [][SETUP_PASSWORD = "" =>
            /\ sessions' = sessions /\ issued' = issued
            /\ ~verdict'.ok
            /\ write' = NoWrite /\ configured' = configured
            /\ \A a \in responses' :
                    a.out = "forwarded" =>
                        (a.req.via = "http" /\ a.req.path \in {"setup", "public"})]_vars

\* C31: a step of a memory-only import (its arrival, and the step from
\* tar.x to its restart() or its answer) leaves the configuration file as it
\* is, leaves an auth-profiles.json that existed with the content it had,
\* calls no stop(), calls restart() only with the gateway running, and
\* without a restart() leaves state and handle as they are.
C31_MemoryImportFrame ==
    [][(/\ imp'.mode = "memory"
        /\ imp.pc \in {"idle", "ended", "extract"}
        /\ imp'.pc \in {"extract", "restart", "ended"}
        /\ imp'.pc # imp.pc)
            => /\ configured' = configured
               /\ proxies' = proxies
               /\ imp'.cfgToken = imp.cfgToken
               /\ imp.auth # "none" => imp'.auth = imp.auth
               /\ \A c \in Calls : ~Issued(c, "stop")
               /\ (\E c \in Calls : Issued(c, "restart")) => isRunning
               /\ (\A c \in Calls : ~Issued(c, "restart")) =>
                        (state' = state /\ process' = process)]_vars

=============================================================================
